---- MODULE Spec2Model ----
(***************************************************************************)
(* Model of examples/02_investigating_dirty_categories.py: a top-to-bottom *)
(* script that overlays two job-title columns of the employee_salaries     *)
(* table, drops the donor column, fits a GapEncoder on the merged column,  *)
(* prints the topic labels and renders the activations of the first rows.  *)
(* One action per statement of the script; pc is the statement about to    *)
(* run.  The encoder (GapEncoder) lives in the library, outside src/, and  *)
(* is modelled from its documented contract.                               *)
(***************************************************************************)
EXTENDS Integers, Sequences, FiniteSets, TLC

VARIABLES pc, fetched, X, y, X_dirty, enc, X_enc, topic_labels, k, stdout,
          encoded_labels, fig, error, log

vars == <<pc, fetched, X, y, X_dirty, enc, X_enc, topic_labels, k, stdout,
          encoded_labels, fig, error, log>>

\* ------------------------------------------------------------------ bounds
MaxRows == 21
PatLen == 2

\* ------------------------------------------------- literals of the script
N_COMPONENTS == 10
RANDOM_STATE == 42
N_LABELS == 3
SLICE_STOP == 20
XTICK_STOP == 10
YTICK_STOP == 20
YLABEL_SLICE_STOP == 20

EPT == "employee_position_title"
UJT == "underfilled_job_title"
DEPT == "department"

\* a missing cell (NaN / None)
Null == "<NA>"

PrimaryValues == {Null, "Manager", "Firefighter"}
SecondaryValues == {Null, "Sr. Manager", "Firefighter"}
RowKinds == PrimaryValues \X SecondaryValues

Min(a, b) == IF a < b THEN a ELSE b

\* ---------------------------------------------------- pandas / builtins
\* number of rows of a data frame (all columns have the same length)
NRows(df) == Len(df[CHOOSE c \in DOMAIN df : TRUE])

\* Series.fillna(other): keep the cells of s that are present, take the
\* row-aligned cell of other where s is missing
fillna_swapped(s, other) ==
    [i \in 1..Len(s) |-> IF other[i] = Null THEN s[i] ELSE other[i]]
fillna_keep_other(s, other) == other
fillna(s, other) ==
    [i \in 1..Len(s) |-> IF s[i] = Null THEN other[i] ELSE s[i]]

\* DataFrame.drop(labels=..., axis="columns")
drop_noop(df, labels) == df
drop(df, labels) == [c \in (DOMAIN df) \ labels |-> df[c]]

\* df[[...]]: projection on a list of columns (a copy)
project(df, cols) == [c \in cols |-> df[c]]

\* df[:stop]: the first stop rows, fewer when the frame is shorter
slice_all(df, stop) == df
slice(df, stop) ==
    [c \in DOMAIN df |-> SubSeq(df[c], 1, Min(stop, Len(df[c])))]

\* df.to_numpy().flatten() of a one-column frame: the column's cells
to_numpy_flatten(df) == df[CHOOSE c \in DOMAIN df : TRUE]

\* range(a, b) as the sequence a, a+1, ..., b-1
range(a, b) == [i \in 1..(IF b > a THEN b - a ELSE 0) |-> a + i - 1]

\* ------------------------------------------------------------- encoder
NoEncoder == [id |-> 0, n_components |-> 0, random_state |-> 0, fitted |-> FALSE]

GapEncoder(nc, rs) ==
    [id |-> 1, n_components |-> nc, random_state |-> rs, fitted |-> FALSE]

\* activations of the rows of df: one row per input row, one column per topic
transform(e, df) ==
    [i \in 1..NRows(df) |-> [t \in 1..e.n_components |-> 0]]

fit(e, df) == [e EXCEPT !.fitted = TRUE]

\* one label group per topic, each of n_labels labels; the label ranked j
\* for topic t is kept abstract as the pair <<t, j>> (topics numbered from 0)
get_feature_names_out(e, n_labels) ==
    [t \in 1..e.n_components |-> [j \in 1..n_labels |-> <<t - 1, j>>]]

\* ---------------------------------------------------------- the script
\* f"Topic n{k}: {labels}" for the k-th element (from 0) of enumerate()
TopicLineFromOne(i, labels) ==
    [text |-> "Topic n°", index |-> i + 1, sep |-> ": ", labels |-> labels]
TopicLine(i, labels) ==
    [text |-> "Topic n°", index |-> i, sep |-> ": ", labels |-> labels]

XtickLocsShort == range(0, XTICK_STOP - 1)
XtickLocs == range(0, XTICK_STOP)

YtickLocs == range(0, YTICK_STOP)

\* the statement that follows statement p in the file
NextPcFitLate(p) ==
    CASE p = "overlay" -> "drop"
      [] p = "drop" -> "derive"
      [] p = "derive" -> "create"
      [] p = "create" -> "summarize"
      [] p = "fit" -> "transform"
      [] p = "summarize" -> "print"
      [] p = "print" -> "fit"
      [] p = "transform" -> "figure"
      [] p = "figure" -> "imshow"
      [] p = "imshow" -> "xlabel"
      [] p = "xlabel" -> "xticks"
      [] p = "xticks" -> "ylabel"
      [] p = "ylabel" -> "yticks"
      [] p = "yticks" -> "colorbar"
      [] p = "colorbar" -> "tight_layout"
      [] p = "tight_layout" -> "show"
      [] p = "show" -> "done"
NextPc(p) ==
    CASE p = "overlay" -> "drop"
      [] p = "drop" -> "derive"
      [] p = "derive" -> "create"
      [] p = "create" -> "fit"
      [] p = "fit" -> "summarize"
      [] p = "summarize" -> "print"
      [] p = "print" -> "transform"
      [] p = "transform" -> "figure"
      [] p = "figure" -> "imshow"
      [] p = "imshow" -> "xlabel"
      [] p = "xlabel" -> "xticks"
      [] p = "xticks" -> "ylabel"
      [] p = "ylabel" -> "yticks"
      [] p = "yticks" -> "colorbar"
      [] p = "colorbar" -> "tight_layout"
      [] p = "tight_layout" -> "show"
      [] p = "show" -> "done"

\* set_ticks(locs) followed by set_ticklabels(labels): a count mismatch is
\* rejected with ValueError by current plotting libraries and accepted
\* silently by older ones
TickOutcomes(locs, labels) ==
    IF Len(locs) = Len(labels) THEN {"ok"} ELSE {"ok", "ValueError"}

NoFigure ==
    [open |-> FALSE, shown |-> FALSE, image |-> <<>>,
     xlabel |-> "", xticks |-> <<>>, xticklabels |-> <<>>,
     ylabel |-> "", yticks |-> <<>>, yticklabels |-> <<>>,
     colorbar |-> "", tight |-> FALSE]

\* the table and target as returned by fetch_employee_salaries()
Fetched(n, pat) ==
    [X |-> [c \in {EPT, UJT, DEPT} |->
              [i \in 1..n |->
                 CASE c = EPT -> pat[((i - 1) % PatLen) + 1][1]
                   [] c = UJT -> pat[((i - 1) % PatLen) + 1][2]
                   [] c = DEPT -> IF i % 2 = 0 THEN "POL" ELSE "FRS"]],
     y |-> [i \in 1..n |-> 1000 * i]]

Init ==
    /\ \E n \in 1..MaxRows, pat \in [1..PatLen -> RowKinds] :
          fetched = Fetched(n, pat)
    /\ X = fetched.X
    /\ y = fetched.y
    /\ pc = "overlay"
    /\ X_dirty = <<>>
    /\ enc = NoEncoder
    /\ X_enc = <<>>
    /\ topic_labels = <<>>
    /\ k = 0
    /\ stdout = <<>>
    /\ encoded_labels = <<>>
    /\ fig = NoFigure
    /\ error = "none"
    /\ log = <<>>

Step(p) == /\ pc = p
           /\ log' = Append(log, p)

\* X[EPT] = X[UJT].fillna(X[EPT])
Overlay ==
    /\ Step("overlay")
    /\ X' = [X EXCEPT ![EPT] = fillna(X[UJT], X[EPT])]
    /\ pc' = NextPc("overlay")
    /\ UNCHANGED <<fetched, y, X_dirty, enc, X_enc, topic_labels, k, stdout,
                   encoded_labels, fig, error>>

\* X.drop(labels=[UJT], axis="columns", inplace=True)
Drop ==
    /\ Step("drop")
    /\ X' = drop(X, {UJT})
    /\ pc' = NextPc("drop")
    /\ UNCHANGED <<fetched, y, X_dirty, enc, X_enc, topic_labels, k, stdout,
                   encoded_labels, fig, error>>

\* X_dirty = X[[EPT]]
DeriveDirty ==
    /\ Step("derive")
    /\ X_dirty' = project(X, {EPT})
    /\ pc' = NextPc("derive")
    /\ UNCHANGED <<fetched, X, y, enc, X_enc, topic_labels, k, stdout,
                   encoded_labels, fig, error>>

\* enc = GapEncoder(n_components=10, random_state=42)
CreateEncoder ==
    /\ Step("create")
    /\ enc' = GapEncoder(N_COMPONENTS, RANDOM_STATE)
    /\ pc' = NextPc("create")
    /\ UNCHANGED <<fetched, X, y, X_dirty, X_enc, topic_labels, k, stdout,
                   encoded_labels, fig, error>>

\* X_enc = enc.fit_transform(X_dirty)
FitTransform ==
    /\ Step("fit")
    /\ enc' = fit(enc, X_dirty)
    /\ X_enc' = transform(enc', X_dirty)
    /\ pc' = NextPc("fit")
    /\ UNCHANGED <<fetched, X, y, X_dirty, topic_labels, k, stdout,
                   encoded_labels, fig, error>>

\* topic_labels = enc.get_feature_names_out(n_labels=3)
Summarize ==
    /\ Step("summarize")
    /\ IF enc.fitted
         THEN /\ topic_labels' = get_feature_names_out(enc, N_LABELS)
              /\ k' = 0
              /\ pc' = NextPc("summarize")
              /\ error' = error
         ELSE /\ error' = "NotFittedError"
              /\ pc' = "failed"
              /\ UNCHANGED <<topic_labels, k>>
    /\ UNCHANGED <<fetched, X, y, X_dirty, enc, X_enc, stdout,
                   encoded_labels, fig>>

\* one iteration of: for k, labels in enumerate(topic_labels): print(...)
PrintTopic ==
    /\ pc = "print"
    /\ k < Len(topic_labels)
    /\ log' = Append(log, "print")
    /\ stdout' = Append(stdout, TopicLine(k, topic_labels[k + 1]))
    /\ k' = k + 1
    /\ UNCHANGED <<pc, fetched, X, y, X_dirty, enc, X_enc, topic_labels,
                   encoded_labels, fig, error>>

\* the iterator is exhausted
LoopExit ==
    /\ pc = "print"
    /\ k >= Len(topic_labels)
    /\ pc' = NextPc("print")
    /\ UNCHANGED <<fetched, X, y, X_dirty, enc, X_enc, topic_labels, k,
                   stdout, encoded_labels, fig, error, log>>

\* encoded_labels = enc.transform(X_dirty[:20])
TransformSample ==
    /\ Step("transform")
    /\ IF enc.fitted
         THEN /\ encoded_labels' = transform(enc, slice(X_dirty, SLICE_STOP))
              /\ pc' = NextPc("transform")
              /\ error' = error
         ELSE /\ error' = "NotFittedError"
              /\ pc' = "failed"
              /\ UNCHANGED encoded_labels
    /\ UNCHANGED <<fetched, X, y, X_dirty, enc, X_enc, topic_labels, k,
                   stdout, fig>>

\* plt.figure(figsize=(8, 10))
Figure ==
    /\ Step("figure")
    /\ fig' = [NoFigure EXCEPT !.open = TRUE]
    /\ pc' = NextPc("figure")
    /\ UNCHANGED <<fetched, X, y, X_dirty, enc, X_enc, topic_labels, k,
                   stdout, encoded_labels, error>>

\* plt.imshow(encoded_labels)
Imshow ==
    /\ Step("imshow")
    /\ fig' = [fig EXCEPT !.image = encoded_labels]
    /\ pc' = NextPc("imshow")
    /\ UNCHANGED <<fetched, X, y, X_dirty, enc, X_enc, topic_labels, k,
                   stdout, encoded_labels, error>>

\* plt.xlabel("Latent topics", size=12)
Xlabel ==
    /\ Step("xlabel")
    /\ fig' = [fig EXCEPT !.xlabel = "Latent topics"]
    /\ pc' = NextPc("xlabel")
    /\ UNCHANGED <<fetched, X, y, X_dirty, enc, X_enc, topic_labels, k,
                   stdout, encoded_labels, error>>

\* plt.xticks(range(0, 10), labels=topic_labels, ...)
Xticks ==
    /\ Step("xticks")
    /\ \E o \in TickOutcomes(XtickLocs, topic_labels) :
          IF o = "ok"
            THEN /\ fig' = [fig EXCEPT !.xticks = XtickLocs,
                                       !.xticklabels = topic_labels]
                 /\ pc' = NextPc("xticks")
                 /\ error' = error
            ELSE /\ fig' = [fig EXCEPT !.xticks = XtickLocs]
                 /\ pc' = "failed"
                 /\ error' = o
    /\ UNCHANGED <<fetched, X, y, X_dirty, enc, X_enc, topic_labels, k,
                   stdout, encoded_labels>>

\* plt.ylabel("Data entries", size=12)
Ylabel ==
    /\ Step("ylabel")
    /\ fig' = [fig EXCEPT !.ylabel = "Data entries"]
    /\ pc' = NextPc("ylabel")
    /\ UNCHANGED <<fetched, X, y, X_dirty, enc, X_enc, topic_labels, k,
                   stdout, encoded_labels, error>>

\* plt.yticks(range(0, 20), labels=X_dirty[:20].to_numpy().flatten())
Yticks ==
    /\ Step("yticks")
    /\ LET labels == to_numpy_flatten(slice(X_dirty, YLABEL_SLICE_STOP))
       IN \E o \in TickOutcomes(YtickLocs, labels) :
             IF o = "ok"
               THEN /\ fig' = [fig EXCEPT !.yticks = YtickLocs,
                                          !.yticklabels = labels]
                    /\ pc' = NextPc("yticks")
                    /\ error' = error
               ELSE /\ fig' = [fig EXCEPT !.yticks = YtickLocs]
                    /\ pc' = "failed"
                    /\ error' = o
    /\ UNCHANGED <<fetched, X, y, X_dirty, enc, X_enc, topic_labels, k,
                   stdout, encoded_labels>>

\* plt.colorbar().set_label(label="Topic activations", size=12)
Colorbar ==
    /\ Step("colorbar")
    /\ fig' = [fig EXCEPT !.colorbar = "Topic activations"]
    /\ pc' = NextPc("colorbar")
    /\ UNCHANGED <<fetched, X, y, X_dirty, enc, X_enc, topic_labels, k,
                   stdout, encoded_labels, error>>

\* plt.tight_layout()
TightLayout ==
    /\ Step("tight_layout")
    /\ fig' = [fig EXCEPT !.tight = TRUE]
    /\ pc' = NextPc("tight_layout")
    /\ UNCHANGED <<fetched, X, y, X_dirty, enc, X_enc, topic_labels, k,
                   stdout, encoded_labels, error>>

\* plt.show(): the figure is displayed and released when show returns
Show ==
    /\ Step("show")
    /\ fig' = [fig EXCEPT !.shown = TRUE, !.open = FALSE]
    /\ pc' = NextPc("show")
    /\ UNCHANGED <<fetched, X, y, X_dirty, enc, X_enc, topic_labels, k,
                   stdout, encoded_labels, error>>

Next ==
    \/ Overlay
    \/ Drop
    \/ DeriveDirty
    \/ CreateEncoder
    \/ FitTransform
    \/ Summarize
    \/ PrintTopic
    \/ LoopExit
    \/ TransformSample
    \/ Figure
    \/ Imshow
    \/ Xlabel
    \/ Xticks
    \/ Ylabel
    \/ Yticks
    \/ Colorbar
    \/ TightLayout
    \/ Show

Spec == Init /\ [][Next]_vars

\* ------------------------------------------------------------ properties
\* the statement s has been executed (or was started and raised)
Did(s) == \E i \in 1..Len(log) : log[i] = s

N0 == Len(fetched.y)
prim0 == fetched.X[EPT]
sec0 == fetched.X[UJT]

IsPrefix(s, t) == /\ Len(s) <= Len(t)
                  /\ \A i \in 1..Len(s) : s[i] = t[i]

Count(s, x) == Cardinality({i \in 1..Len(s) : s[i] = x})

\* C1 (as stated): wherever employee_position_title was present before the
\* preprocessing, its value after the preprocessing is that original value,
\* whatever underfilled_job_title holds.
C1_PrimaryNeverOverwritten ==
    Did("overlay") =>
        \A i \in 1..N0 : prim0[i] # Null => X[EPT][i] = prim0[i]

\* C1 (amended): a present employee_position_title is kept only where the
\* row's underfilled_job_title is missing; where both are present the
\* underfilled_job_title value replaces it.
C1_PrimaryKeptOnlyWhenSecondaryMissing ==
    Did("overlay") =>
        \A i \in 1..N0 :
            prim0[i] # Null =>
                /\ sec0[i] = Null => X[EPT][i] = prim0[i]
                /\ sec0[i] # Null => X[EPT][i] = sec0[i]

C1_Witness ==
    /\ Did("overlay")
    /\ \E i \in 1..N0 : /\ prim0[i] = "Manager"
                        /\ sec0[i] = "Sr. Manager"
                        /\ X[EPT][i] = "Sr. Manager"
    /\ \E j \in 1..N0 : /\ prim0[j] # Null
                        /\ sec0[j] = Null

\* C2: where employee_position_title was missing and underfilled_job_title
\* present, employee_position_title holds the underfilled_job_title value
\* after the preprocessing.
C2_MissingPrimaryTakesSecondary ==
    Did("overlay") =>
        \A i \in 1..N0 :
            (prim0[i] = Null /\ sec0[i] # Null) => X[EPT][i] = sec0[i]

C2_Witness ==
    /\ Did("drop")
    /\ \E i \in 1..N0 : /\ prim0[i] = Null
                        /\ sec0[i] = "Firefighter"
                        /\ X[EPT][i] = "Firefighter"

\* C3: after the preprocessing underfilled_job_title is no column of the
\* table and employee_position_title still is; no row is added or removed
\* by the overlay or the drop, and the dirty column has the same row count
\* and shows the merged values.
C3_SecondaryDroppedRowsKept ==
    /\ \A c \in DOMAIN X : Len(X[c]) = N0
    /\ Len(y) = N0
    /\ Did("drop") => (UJT \notin DOMAIN X /\ EPT \in DOMAIN X)
    /\ Did("derive") => /\ DOMAIN X_dirty = {EPT}
                        /\ Len(X_dirty[EPT]) = N0
                        /\ X_dirty[EPT] = X[EPT]

C3_Witness ==
    /\ Did("derive")
    /\ N0 > 1
    /\ UJT \notin DOMAIN X
    /\ \E i \in 1..N0 : prim0[i] = Null /\ sec0[i] # Null

\* C4: fit_transform on the N rows of the dirty column gives an N x 10
\* matrix, and transform on X_dirty[:20] gives a min(20, N) x 10 matrix.
C4_EncodedShapes ==
    /\ Did("fit") =>
          /\ Len(X_enc) = N0
          /\ \A i \in 1..Len(X_enc) : Len(X_enc[i]) = 10
    /\ Did("transform") =>
          /\ Len(encoded_labels) = Min(20, N0)
          /\ \A i \in 1..Len(encoded_labels) : Len(encoded_labels[i]) = 10

C4_Witness ==
    /\ Did("transform")
    /\ N0 > 20
    /\ Len(X_enc) = N0
    /\ Len(encoded_labels) = 20

\* C5: the report has one line per topic, line number i (from 0) carrying
\* index i and the i-th label group of the encoder's summary, each group
\* of 3 labels; once the loop has ended there are exactly 10 lines.
C5_OneLinePerTopicInOrder ==
    /\ Len(stdout) <= 10
    /\ \A i \in 1..Len(stdout) :
          /\ stdout[i].text = "Topic n°"
          /\ stdout[i].index = i - 1
          /\ stdout[i].labels = topic_labels[i]
          /\ Len(stdout[i].labels) = 3
    /\ Did("transform") => Len(stdout) = 10

C5_Witness ==
    /\ pc = "transform"
    /\ Len(stdout) = 10
    /\ stdout[10].index = 9

\* C6 (as stated): once the yticks statement has run, no error was raised
\* and the vertical axis has exactly min(20, N) ticks, tick i labelled with
\* the raw value of row i of the dirty column.
C6_YTicksClippedToRows ==
    Did("yticks") =>
        /\ error = "none"
        /\ Len(fig.yticks) = Min(20, N0)
        /\ Len(fig.yticklabels) = Min(20, N0)
        /\ \A i \in 1..Min(20, N0) : fig.yticklabels[i] = X_dirty[EPT][i]

ExpectedOrder ==
    <<"overlay", "drop", "derive", "create", "fit", "summarize">>
    \o [i \in 1..10 |-> "print"]
    \o <<"transform", "figure", "imshow", "xlabel", "xticks", "ylabel",
         "yticks", "colorbar", "tight_layout", "show">>

C8_Order ==
    /\ IsPrefix(log, ExpectedOrder)
    /\ Count(log, "create") <= 1
    /\ Count(log, "fit") <= 1
    /\ enc.id \in {0, 1}
    /\ (Did("summarize") \/ Did("transform")) =>
          (enc.fitted /\ enc.id = 1 /\ Count(log, "fit") = 1)
    /\ pc = "done" => log = ExpectedOrder

C8_FrozenAfterFit ==
    enc.fitted => (X' = X /\ y' = y /\ X_dirty' = X_dirty /\ enc' = enc)

\* C8: the statements run one after another in the order preprocess,
\* derive, create, fit, summarize, transform, render; the encoder is
\* created once and fitted once, summary and transform use that fitted
\* instance, and table, dirty column and encoder do not change after the fit.
C8_Lifecycle == [](C8_Order) /\ [][C8_FrozenAfterFit]_vars

C8_Witness ==
    /\ pc = "done"
    /\ log = ExpectedOrder
    /\ enc.fitted

\* C9 (as stated): no run ends, normally or by an error, with the figure
\* still open.
C9_FigureReleasedOnEveryExit ==
    pc \in {"done", "failed"} => ~fig.open

\* C10: after the overlay every row's employee_position_title is the
\* original underfilled_job_title when that was present and the original
\* employee_position_title otherwise; every other column still in the
\* table and the target are as fetched.
C10_OverlayPrefersSecondary ==
    /\ Did("overlay") =>
          \A i \in 1..N0 :
              X[EPT][i] = IF sec0[i] # Null THEN sec0[i] ELSE prim0[i]
    /\ \A c \in (DOMAIN X) \ {EPT} : X[c] = fetched.X[c]
    /\ DEPT \in DOMAIN X
    /\ y = fetched.y

C10_Witness ==
    /\ pc = "done"
    /\ \E i \in 1..N0 : prim0[i] = Null /\ sec0[i] = Null /\ X[EPT][i] = Null
    /\ \E j \in 1..N0 : prim0[j] = "Firefighter" /\ sec0[j] = Null
                        /\ X[EPT][j] = "Firefighter"

====
